---- MODULE Spec2Model ----
(***************************************************************************)
(* FX Cache Manager (healkeiser/fxhoucachemanager).                         *)
(*                                                                         *)
(* The model covers the scan worker (fxmodel.FXGatherCacheDataObject), the *)
(* worker/thread life cycle of the main window and the two handlers that   *)
(* change the scene or the disk: _update_caches and _delete_unused_caches  *)
(* (fxview.FXCacheManagerMainWindow).                                      *)
(*                                                                         *)
(* Strings (paths, versions, node names, parameter values) are sequences   *)
(* of one-character strings, so that the regular expression search, the    *)
(* Python string order, str.replace and the host's variable expansion are  *)
(* computed character by character, as the code and the host do.           *)
(***************************************************************************)
EXTENDS Integers, Sequences, FiniteSets, TLC

\* ------------------------------------------------------------------ bounds

\* Number of files on disk at start, in the scenes that are scanned only.
MaxScanFiles == 3

\* Number of files on disk at start, in the scenes the user acts on.
MaxFiles == 2

\* Number of _start_worker calls (the one of the constructor included).
MaxStarts == 2

\* Number of files on disk at start, in the scenes whose scan is fair.
MaxLiveFiles == 1

\* Number of file parameters of the large scene.
LargeSceneParms == 101

\* ----------------------------------------------------------------- strings

Digits == {"0", "1", "2", "3", "4", "5", "6", "7", "8", "9"}

Letters == {"H", "I", "O", "P", "S", "a", "b", "k", "r", "v", "x"}

\* [A-Za-z0-9_]: the characters of a host variable name.
IdentChars == Letters \cup Digits \cup {"_"}

\* Code point of a character (the order Python compares str by).
Ord(c) ==
    CASE c = "$" -> 36 [] c = "." -> 46 [] c = "/" -> 47
      [] c = "0" -> 48 [] c = "1" -> 49 [] c = "2" -> 50 [] c = "3" -> 51
      [] c = "4" -> 52 [] c = "5" -> 53 [] c = "6" -> 54 [] c = "7" -> 55
      [] c = "8" -> 56 [] c = "9" -> 57
      [] c = "H" -> 72 [] c = "I" -> 73 [] c = "O" -> 79 [] c = "P" -> 80
      [] c = "S" -> 83 [] c = "_" -> 95
      [] c = "a" -> 97 [] c = "b" -> 98 [] c = "k" -> 107 [] c = "r" -> 114
      [] c = "v" -> 118 [] c = "x" -> 120

SetMin(S) == CHOOSE x \in S : \A y \in S : x <= y

SetMax(S) == CHOOSE x \in S : \A y \in S : y <= x

\* Python's s < t on str: the first differing character decides, a proper
\* prefix is smaller.
StrLess(s, t) ==
    LET n == IF Len(s) < Len(t) THEN Len(s) ELSE Len(t)
        diff == {i \in 1..n : s[i] # t[i]}
    IN  IF diff = {} THEN Len(s) < Len(t)
        ELSE Ord(s[SetMin(diff)]) < Ord(t[SetMin(diff)])

StrLeq(s, t) == s = t \/ StrLess(s, t)

\* The python value None, where a version or a path is expected.
None == <<"None">>

\* s[from:] of Python, 1-based.
Drop(s, n) == SubSeq(s, n + 1, Len(s))

IsPrefix(p, s) == Len(p) <= Len(s) /\ SubSeq(s, 1, Len(p)) = p

\* str.replace(old, new): left to right, non-overlapping; old is not empty.
RECURSIVE ReplaceAll(_, _, _)
ReplaceAll(s, old, new) ==
    IF s = <<>> THEN <<>>
    ELSE IF IsPrefix(old, s) THEN new \o ReplaceAll(Drop(s, Len(old)), old, new)
    ELSE <<s[1]>> \o ReplaceAll(Tail(s), old, new)

\* -------------------------------------------------------------------- paths

\* pathlib: the index of the last "/" of a path.
LastSlash(p) == SetMax({i \in 1..Len(p) : p[i] = "/"})

\* Path.name
PathName(p) == Drop(p, LastSlash(p))

\* Path.parent
PathParent(p) == SubSeq(p, 1, LastSlash(p) - 1)

\* Path.parents[1]
PathParents1(p) == PathParent(PathParent(p))

\* Path.is_relative_to(root): root is p or an ancestor directory of p.
IsRelativeTo(p, root) == p = root \/ IsPrefix(root \o <<"/">>, p)

\* scan_directory(directory) on the file system fs (a set of file paths):
\* every file below the directory, at any depth.
ScanDirectory(directory, fs) ==
    {f \in fs : f # directory /\ IsRelativeTo(f, directory)}

\* ------------------------------------------------------ the version pattern

\* The configured version_pattern is v\d+ : a "v" followed by digits.
\* PatternAt(s, i): the pattern matches s at position i.
PatternAt(s, i) == i + 1 <= Len(s) /\ s[i] = "v" /\ s[i + 1] \in Digits

\* \d+ is greedy: the last position of the match that starts at i.
PatternEnd(s, i) ==
    SetMax({j \in (i + 1)..Len(s) : \A k \in (i + 1)..j : s[k] \in Digits})

\* compiled_version_pattern.match(name): anchored at the start only.
PatternMatch(name) == PatternAt(name, 1)

\* _extract_version: the first match anywhere in the posix path, or "".
ExtractVersion(path) ==
    LET starts == {i \in 1..Len(path) : PatternAt(path, i)}
    IN  IF starts = {} THEN <<>>
        ELSE SubSeq(path, SetMin(starts), PatternEnd(path, SetMin(starts)))

\* ------------------------------------------------------ sorting and orders

\* sorted(set of str): ascending in the str order.
RECURSIVE SortedStrings(_)
SortedStrings(S) ==
    IF S = {} THEN <<>>
    ELSE LET m == CHOOSE x \in S : \A y \in S : StrLeq(x, y)
         IN  <<m>> \o SortedStrings(S \ {m})

\* max(list of str): the greatest in the str order.
PyMax(versions) ==
    LET S == {versions[i] : i \in 1..Len(versions)}
    IN  CHOOSE x \in S : \A y \in S : StrLeq(y, x)

\* Every order in which a python set of paths may be iterated.
RECURSIVE Perms(_)
Perms(S) ==
    IF S = {} THEN {<<>>}
    ELSE UNION {{<<x>> \o q : q \in Perms(S \ {x})} : x \in S}

\* dict(sorted(d.items(), key=lambda item: item[1], reverse=True)) on a
\* dictionary given as the sequence of its items [path, version]: greatest
\* version first, items of one version in the order they had (sorted is
\* stable, also with reverse=True).
RECURSIVE SortedByVersionDesc(_)
SortedByVersionDesc(items) ==
    IF items = <<>> THEN <<>>
    ELSE LET m == PyMax([i \in 1..Len(items) |-> items[i].version])
         IN  SelectSeq(items, LAMBDA e : e.version = m)
             \o SortedByVersionDesc(SelectSeq(items, LAMBDA e : e.version # m))

\* The keys of a dictionary given as the sequence of its items.
Keys(items) == {items[i].path : i \in 1..Len(items)}

\* The number a version "v<digits>" stands for.
RECURSIVE DigitsValue(_)
DigitsValue(ds) ==
    IF ds = <<>> THEN 0
    ELSE 10 * DigitsValue(SubSeq(ds, 1, Len(ds) - 1)) + (Ord(ds[Len(ds)]) - Ord("0"))

VersionNumber(version) == DigitsValue(Tail(version))

\* ----------------------------------------------------------- the host scene

\* $HIP of the host session; the configured cache_root_path is below it.
Hip == <<"/", "r">>

CacheRootPath == Hip

Parms == {"p1", "p2"}

\* The parameters of the large scene are taken from these, in this order.
LargeParmNames ==
    <<
       "q001", "q002", "q003", "q004", "q005", "q006", "q007", "q008", "q009", "q010",
       "q011", "q012", "q013", "q014", "q015", "q016", "q017", "q018", "q019", "q020",
       "q021", "q022", "q023", "q024", "q025", "q026", "q027", "q028", "q029", "q030",
       "q031", "q032", "q033", "q034", "q035", "q036", "q037", "q038", "q039", "q040",
       "q041", "q042", "q043", "q044", "q045", "q046", "q047", "q048", "q049", "q050",
       "q051", "q052", "q053", "q054", "q055", "q056", "q057", "q058", "q059", "q060",
       "q061", "q062", "q063", "q064", "q065", "q066", "q067", "q068", "q069", "q070",
       "q071", "q072", "q073", "q074", "q075", "q076", "q077", "q078", "q079", "q080",
       "q081", "q082", "q083", "q084", "q085", "q086", "q087", "q088", "q089", "q090",
       "q091", "q092", "q093", "q094", "q095", "q096", "q097", "q098", "q099", "q100",
       "q101", "q102", "q103", "q104", "q105", "q106", "q107", "q108", "q109", "q110"
    >>

Nodes == {"n1", "n2"}

NodeNames == {<<"a">>, <<"b">>}

\* The files a scene of the model may hold: cache directory / version
\* directory / file, below the cache root, and one file outside of it.
MkPath(cache, vdir, file) ==
    CacheRootPath \o <<"/">> \o cache \o <<"/">> \o vdir \o <<"/">> \o file

VersionDirs == {<<"v", "1">>, <<"v", "2">>, <<"v", "1", "0">>}

Universe ==
    {MkPath(<<"a">>, vd, <<"a", ".", "x">>) : vd \in VersionDirs}
    \cup {MkPath(<<"a">>, vd, <<"a", "_", "k", ".", "x">>) :
            vd \in {<<"v", "1">>, <<"v", "2">>}}

\* The files of the scenes that are scanned only: also a cache directory
\* whose own name has the form of a version.
ScanUniverse ==
    Universe \cup {MkPath(<<"v", "3">>, vd, <<"a", ".", "x">>) :
                      vd \in {<<"v", "1">>, <<"v", "2">>}}

\* The texts typed in the search bar.
SearchTexts == {<<>>, <<"b">>}

OutsidePath == <<"/", "x", "/", "v", "1", "/", "a", ".", "x">>

VARIABLES
    disk,        \* the files that exist (a set of paths)
    nodeName,    \* hou.Node.name() of every node
    parmNode,    \* hou.Parm.node() of every parameter
    parmRef,     \* hou.Parm.getReferencedParm() of every parameter
    parmRaw,     \* the unexpanded string value of every parameter
    caches,      \* self.caches of the main window: node name -> cache data
    tree,        \* the top level items of cache_tree_widget, by node name
    search,      \* the text of the search bar
    nStarts,     \* how many times _start_worker ran; self._worker is worker nStarts
    worker,      \* per FXGatherCacheDataObject: affinity, run position, result
    thread,      \* per QThread: state and its finished connection
    closed,      \* closeEvent has run
    lastOp       \* the last step that built or changed cache data, the
                 \* scene or the disk, with its inputs and effects

vars == <<disk, nodeName, parmNode, parmRef, parmRaw, caches, tree, search, nStarts,
          worker, thread, closed, lastOp>>

\* hou.text.collapseCommonVars(path): a leading $HIP directory becomes "$HIP".
CollapseCommonVars(s) ==
    IF IsRelativeTo(s, Hip) THEN <<"$", "H", "I", "P">> \o Drop(s, Len(Hip))
    ELSE s

\* _collapse_houdini_path
CollapseHoudiniPath(path, node_name) ==
    ReplaceAll(CollapseCommonVars(path), node_name, <<"$", "O", "S">>)

\* The value of a host variable for a parameter of a node named os.
VarValue(name, os) ==
    IF name = <<"O", "S">> THEN os
    ELSE IF name = <<"H", "I", "P">> THEN Hip
    ELSE IF name = <<>> THEN <<"$">>
    ELSE <<>>

\* The host's expansion of a string parameter: "$" starts a variable whose
\* name is the longest run of [A-Za-z0-9_] that follows; a variable that is
\* not set expands to nothing.
RECURSIVE ExpandString(_, _)
ExpandString(s, os) ==
    IF s = <<>> THEN <<>>
    ELSE IF s[1] = "$"
    THEN LET e == SetMax({j \in 1..Len(s) : \A k \in 2..j : s[k] \in IdentChars})
         IN  VarValue(SubSeq(s, 2, e), os) \o ExpandString(Drop(s, e), os)
    ELSE <<s[1]>> \o ExpandString(Tail(s), os)

\* hou.Parm.eval() of a string parameter.
ParmEval(parm) == ExpandString(parmRaw[parm], nodeName[parmNode[parm]])

\* ------------------------------------------------------------- cache data

\* FXCacheData.__init__
FXCacheData(node, referenced_parm, used_cache_path, fs) ==
    [cache_node |-> node,
     cache_parm |-> referenced_parm,
     cache_name |-> PathName(used_cache_path),
     used_cache_path |-> (used_cache_path :> None),
     unused_cache_paths |-> <<>>,
     latest_version |-> None,
     current_version |-> None,
     all_versions |-> <<>>,
     is_current_latest |-> FALSE,
     valid_cache_file |-> used_cache_path \in fs,
     valid_cache_path |-> FALSE]

\* The used path of a cache data dictionary: next(iter(used_cache_path)).
UsedPath(cache_data) == CHOOSE p \in DOMAIN cache_data.used_cache_path : TRUE

\* all_caches - {used_cache_path} of _build_cache_data.
UnusedSet(used_cache_path, fs) ==
    ScanDirectory(PathParents1(used_cache_path), fs) \ {used_cache_path}

\* Variant: The first of the ascending all_versions instead of max().
LatestVersionMin(all_versions) == all_versions[1]

\* max(all_versions) of _build_cache_data.
LatestVersion(all_versions) == PyMax(all_versions)

\* _build_cache_data. iteration is the order in which the python set
\* unused_cache_paths is iterated (any order of its elements).
BuildCacheData(referenced_parm, used_cache_path, fs, iteration) ==
    LET cache_data ==
            FXCacheData(parmNode[referenced_parm], referenced_parm, used_cache_path, fs)
    IN  IF used_cache_path \notin fs THEN cache_data
        ELSE IF ~PatternMatch(PathName(PathParent(used_cache_path))) THEN cache_data
        ELSE
        LET all_caches == ScanDirectory(PathParents1(used_cache_path), fs)
            all_versions == SortedStrings({ExtractVersion(p) : p \in all_caches})
            latest_version == LatestVersion(all_versions)
            current_version == ExtractVersion(used_cache_path)
            unused_cache_versions ==
                [i \in 1..Len(iteration) |->
                    [path |-> iteration[i], version |-> ExtractVersion(iteration[i])]]
        IN  [cache_data EXCEPT
                !.used_cache_path = (used_cache_path :> current_version),
                !.unused_cache_paths = SortedByVersionDesc(unused_cache_versions),
                !.latest_version = latest_version,
                !.current_version = current_version,
                !.all_versions = all_versions,
                !.is_current_latest = (latest_version = current_version),
                !.valid_cache_path = TRUE]

\* The iteration orders of unused_cache_paths for a used path: none when
\* _build_cache_data returns before it builds the set.
Iterations(used_cache_path, fs) ==
    IF used_cache_path \in fs /\ PatternMatch(PathName(PathParent(used_cache_path)))
    THEN Perms(UnusedSet(used_cache_path, fs))
    ELSE {<<>>}

\* ------------------------------------------------------------- the scan

\* Variant: the progress of run() computed from index instead of index + 1.
ProgressFromIndex(index, total_files) == (index * 100) \div total_files

\* progress = int((index + 1) / total_files * 100) of run(): the quotient
\* and the product are doubles, and int() truncates. For every total_files
\* of the scenes modelled (up to 2, and from LargeSceneParms on) the double
\* result truncates to the floor of the exact value (it is one less for
\* some index when total_files is 50 or 100).
Progress(index, total_files) == ((index + 1) * 100) \div total_files

\* hou.fileReferences(): every parameter of the scene holding a file
\* reference, and one reference that belongs to no parameter.
FileReferences == DOMAIN parmRaw \cup {"None"}

\* isinstance(parm, hou.Parm)
IsHouParm(parm) == parm \in DOMAIN parmRaw

\* The set comprehension of _filter_file_references: the distinct pairs
\* (referenced parameter, evaluated path) below the cache root.
FilteredSet ==
    {<<parmRef[parm], ParmEval(parmRef[parm])>> :
        parm \in {q \in FileReferences :
                    IsHouParm(q) /\ IsRelativeTo(ParmEval(parmRef[q]), CacheRootPath)}}

\* Variant: the pairs in the order of the set, not sorted.
UnsortedPairs(pairs) == Perms(pairs)

\* sorted(pairs, key=lambda x: str(x[1])) of a python set of pairs: every
\* order the sort can give (pairs with one path keep the order in which the
\* set is iterated, which is any order).
RECURSIVE SortedByPath(_)
SortedByPath(pairs) ==
    IF pairs = {} THEN {<<>>}
    ELSE LET half == Cardinality(pairs) \div 2
             Before(x) == {y \in pairs : StrLess(y[2], x[2])}
             After(x) == {y \in pairs : StrLess(x[2], y[2])}
             middle == CHOOSE x \in pairs :
                           /\ Cardinality(Before(x)) <= half
                           /\ Cardinality(After(x)) <= half
             equal == pairs \ (Before(middle) \cup After(middle))
         IN  {b \o e \o a : b \in SortedByPath(Before(middle)),
                             e \in Perms(equal),
                             a \in SortedByPath(After(middle))}

\* _filter_file_references
FilterFileReferences == SortedByPath(FilteredSet)

\* dict assignment d[key] = value on a dictionary given as its items.
DictSet(items, key, value) ==
    IF key \in Keys(items)
    THEN [i \in 1..Len(items) |->
            IF items[i].path = key THEN [path |-> key, version |-> value] ELSE items[i]]
    ELSE Append(items, [path |-> key, version |-> value])

\* dict.pop(key) / del d[key]
DictDel(items, key) == SelectSeq(items, LAMBDA e : e.path # key)

\* caches[key] = value on self.caches (a function from node names).
PutCache(cs, key, value) ==
    [k \in DOMAIN cs \cup {key} |-> IF k = key THEN value ELSE cs[k]]

\* ------------------------------------------------------------- the tree

\* cache_text of the item of a cache whose file does not exist.
InvalidCacheText ==
    <<"I", "n", "v", "a", "l", "i", "d", " ", "C", "a", "c", "h", "e">>

\* One top level item of _populate_tree for a cache data dictionary.
TreeItem(cache_data) ==
    IF ~cache_data.valid_cache_file
    THEN [valid_cache_file |-> FALSE,
          valid_cache_path |-> cache_data.valid_cache_path,
          cache_text |-> InvalidCacheText,
          version |-> <<>>, path |-> <<>>,
          has_combobox |-> FALSE, combo_items |-> <<>>, combo_text |-> <<>>,
          children |-> <<>>,
          hidden |-> FALSE]
    ELSE [valid_cache_file |-> TRUE,
          valid_cache_path |-> cache_data.valid_cache_path,
          cache_text |-> PathName(UsedPath(cache_data)),
          version |-> IF cache_data.current_version = None THEN <<>>
                      ELSE cache_data.current_version,
          path |-> UsedPath(cache_data),
          has_combobox |-> cache_data.valid_cache_path,
          combo_items |-> IF cache_data.valid_cache_path
                          THEN cache_data.all_versions ELSE <<>>,
          combo_text |-> IF cache_data.valid_cache_path
                         THEN cache_data.current_version ELSE <<>>,
          children |-> cache_data.unused_cache_paths,
          hidden |-> FALSE]

\* _show_context_menu on a top level item (is_parent): whether Update
\* Selected to Latest and Delete Unused Caches are enabled.
ContextActionEnabled(item) == item.valid_cache_file /\ item.valid_cache_path

\* The top level items _populate_tree creates, one per entry of self.caches.
TreeItems(cs) == [node_name \in DOMAIN cs |-> TreeItem(cs[node_name])]

\* str.lower() on the texts of the tree and of the search bar.
Lower(s) ==
    [i \in 1..Len(s) |->
        CASE s[i] = "C" -> "c" [] s[i] = "H" -> "h" [] s[i] = "I" -> "i"
          [] s[i] = "O" -> "o" [] s[i] = "P" -> "p" [] s[i] = "S" -> "s"
          [] OTHER -> s[i]]

\* t in s, for two strings.
Contains(s, t) ==
    \E i \in 0..(Len(s) - Len(t)) : SubSeq(s, i + 1, i + Len(t)) = t

\* _get_selected_extensions: the extension buttons that are checked; the
\* extension of the scene's cache files is one of them.
SelectedExtensions == {<<".", "x">>}

\* invalid_button.isChecked()
ShowInvalid == TRUE

\* _filter_item on an item with the texts of its first two columns (node,
\* cache): what it returns, which is whether the item stays visible.
FilterMatch(node_text, cache_text, is_invalid, child_results, text) ==
    LET match == \/ Contains(Lower(node_text), Lower(text))
                 \/ Contains(Lower(cache_text), Lower(text))
                 \/ TRUE \in child_results
        extension_match ==
            \E extension \in SelectedExtensions : Contains(cache_text, extension)
    IN  match /\ (extension_match \/ (ShowInvalid /\ is_invalid))

\* _filter_item on a top level item and, before it, on its children.
FilterItem(item, node_name, text) ==
    LET child_results ==
            {FilterMatch(<<>>, PathName(item.children[i].path),
                         ~item.valid_cache_file, {}, text) :
                i \in 1..Len(item.children)}
    IN  FilterMatch(node_name, item.cache_text, ~item.valid_cache_file,
                    child_results, text)

\* _filter_tree: setHidden on every top level item.
FilterTreeItems(tr, text) ==
    [node_name \in DOMAIN tr |->
        [tr[node_name] EXCEPT !.hidden = ~FilterItem(tr[node_name], node_name, text)]]

\* _populate_tree, which ends with _filter_tree(self.search_bar.text())
PopulateTree(cs, text) == FilterTreeItems(TreeItems(cs), text)

\* ------------------------------------------------- workers and threads

\* QObject.moveToThread: Qt refuses to move an object that has a parent
\* ("Cannot move objects with a parent") and the object keeps the thread
\* it was created in.
MoveToThread(has_parent) == IF has_parent THEN "gui" ELSE "thread"

\* FXGatherCacheDataObject.__init__(parent, ...): super().__init__(parent),
\* called by _start_worker with parent = the main window.
WorkerHasParent == TRUE

\* The thread and the worker that _start_worker creates and connects.
NewWorker ==
    [affinity |-> MoveToThread(WorkerHasParent),
     run |-> "idle",          \* idle, queued, running, done
     ran_on |-> "none",       \* the thread that executes run()
     refs |-> <<>>,           \* filtered_file_references
     index |-> 0,             \* entries of refs processed
     caches |-> << >>,        \* the caches dictionary being built
     progress |-> <<>>,       \* the values progress has emitted
     emitted |-> 0,           \* how many times finished was emitted
     on_finished |-> {"_stop_worker", "quit", "deleteLater"},
     delete_later |-> FALSE,
     deleted |-> FALSE]

NewThread ==
    [state |-> "new",         \* new, loop, quit, finished, deleted
     on_finished |-> {"deleteLater"},
     delete_later |-> FALSE]

\* The GUI thread is inside a handler that has not returned: a run() that
\* executes on the GUI thread.
GuiBusy ==
    \E w \in DOMAIN worker : worker[w].affinity = "gui" /\ worker[w].run = "running"

\* Variant: _stop_current_worker without the disconnects.
DisconnectWorkerNone(w) == worker[w].on_finished

\* The first try block of _stop_current_worker on worker w: the three
\* disconnects, given up at the first RuntimeError.
DisconnectWorker(w) ==
    IF worker[w].deleted \/ "_stop_worker" \notin worker[w].on_finished
    THEN worker[w].on_finished
    ELSE IF thread[w].state = "deleted" \/ "quit" \notin worker[w].on_finished
    THEN worker[w].on_finished \ {"_stop_worker"}
    ELSE {}

\* The second try block reaches quit() and wait().
ThreadStopped(w) ==
    thread[w].state # "deleted" /\ "deleteLater" \in thread[w].on_finished

\* _stop_current_worker: the workers and the threads afterwards. wait()
\* returns when the thread has left its event loop; a thread that had not
\* yet emitted started does so first, which queues run().
StopCurrentWorkerW ==
    LET w == nStarts
    IN  [worker EXCEPT
            ![w].on_finished = DisconnectWorker(w),
            ![w].run = IF ThreadStopped(w) /\ thread[w].state = "new"
                       THEN "queued" ELSE @]

\* Variant: _stop_current_worker without quit() and wait().
StopCurrentWorkerTNoWait == thread

StopCurrentWorkerT ==
    LET w == nStarts
    IN  IF ThreadStopped(w)
        THEN [thread EXCEPT ![w].on_finished = {}, ![w].state = "finished"]
        ELSE thread

\* wait() blocks the GUI thread until the thread's event loop has returned:
\* a run() executing in that thread would have to end first.
CanWait ==
    ~(worker[nStarts].affinity = "thread"
        /\ worker[nStarts].run \in {"queued", "running"})

\* ------------------------------------------------------- _update_caches

\* The generator of _update_caches finds a path: some unused path has the
\* new version (otherwise next() raises StopIteration and the handler ends).
HasUnusedVersion(cache_data, new_version) ==
    \E i \in 1..Len(cache_data.unused_cache_paths) :
        cache_data.unused_cache_paths[i].version = new_version

\* new_used_cache_path: the first unused path, in dictionary order, with the
\* new version.
NewUsedCachePath(cache_data, new_version) ==
    LET unused == cache_data.unused_cache_paths
    IN  unused[SetMin({i \in 1..Len(unused) : unused[i].version = new_version})].path

\* Variant: _update_caches without putting the old used path back.
UpdatedCacheDataDropOld(cache_data, new_version) ==
    LET new_used_cache_path == NewUsedCachePath(cache_data, new_version)
        popped == DictDel(cache_data.unused_cache_paths, new_used_cache_path)
    IN  [cache_data EXCEPT
            !.unused_cache_paths = SortedByVersionDesc(popped),
            !.used_cache_path = (new_used_cache_path :> new_version),
            !.current_version = new_version,
            !.is_current_latest = (new_version = cache_data.latest_version)]

\* Variant: _update_caches without the assignment of current_version.
UpdatedCacheDataStale(cache_data, new_version) ==
    LET old_used_cache_path == UsedPath(cache_data)
        new_used_cache_path == NewUsedCachePath(cache_data, new_version)
        popped == DictDel(cache_data.unused_cache_paths, new_used_cache_path)
        added == DictSet(popped, old_used_cache_path, cache_data.current_version)
    IN  [cache_data EXCEPT
            !.unused_cache_paths = SortedByVersionDesc(added),
            !.used_cache_path = (new_used_cache_path :> new_version),
            !.is_current_latest = (new_version = cache_data.latest_version)]

\* The cache data that _update_caches stores in self.caches[node_name].
UpdatedCacheData(cache_data, new_version) ==
    LET old_used_cache_path == UsedPath(cache_data)
        new_used_cache_path == NewUsedCachePath(cache_data, new_version)
        popped == DictDel(cache_data.unused_cache_paths, new_used_cache_path)
        added == DictSet(popped, old_used_cache_path, cache_data.current_version)
    IN  [cache_data EXCEPT
            !.unused_cache_paths = SortedByVersionDesc(added),
            !.used_cache_path = (new_used_cache_path :> new_version),
            !.current_version = new_version,
            !.is_current_latest = (new_version = cache_data.latest_version)]

\* The value _update_caches gives to the cache parameter.
UpdatedParmValue(cache_data, node_name, new_version) ==
    CollapseHoudiniPath(NewUsedCachePath(cache_data, new_version), node_name)

\* The data a handler of the window works on: self.caches, the tree, the
\* parameters of the scene and the calls of cache_parm.set it has made.
WindowData == [caches |-> caches, tree |-> tree, parmRaw |-> parmRaw, parm_sets |-> <<>>]

\* _update_caches(node_name, new_version) on such data. When no unused path
\* has the new version, next() raises StopIteration and nothing but the
\* combobox, which already shows the new version, has changed.
UpdateCachesOn(data, node_name, new_version) ==
    LET cache_data == data.caches[node_name]
    IN  IF HasUnusedVersion(cache_data, new_version)
        THEN LET updated == UpdatedCacheData(cache_data, new_version)
                 value == UpdatedParmValue(cache_data, node_name, new_version)
             IN  [caches |-> [data.caches EXCEPT ![node_name] = updated],
                  tree |-> [data.tree EXCEPT
                               ![node_name].combo_text = new_version,
                               ![node_name].version = new_version,
                               ![node_name].path = UsedPath(updated),
                               ![node_name].children = updated.unused_cache_paths],
                  parmRaw |-> [data.parmRaw EXCEPT ![cache_data.cache_parm] = value],
                  parm_sets |-> Append(data.parm_sets,
                                       [parm |-> cache_data.cache_parm,
                                        value |-> value,
                                        undo_group |-> "Update Cache Path"])]
        ELSE [data EXCEPT !.tree[node_name].combo_text = new_version]

\* ------------------------------------------------------ update to latest

\* _is_combobox_up_to_date: the current text is the text of the last entry.
IsComboboxUpToDate(item) ==
    item.combo_text = item.combo_items[Len(item.combo_items)]

\* Variant: the first entry of the combobox instead of the last.
LatestIndexFirst(combo_items) == 1

\* _update_combobox_to_latest: the index given to setCurrentIndex.
LatestIndex(combo_items) == Len(combo_items)

\* combobox.setCurrentIndex(index): currentTextChanged calls _update_caches
\* when the text changes.
SetCurrentIndex(data, node_name, index) ==
    LET item == data.tree[node_name]
    IN  IF item.combo_items[index] = item.combo_text THEN data
        ELSE UpdateCachesOn(data, node_name, item.combo_items[index])

\* The loop of _update_selected_to_latest and of
\* _update_comboboxes_to_latest over top level items, given by node name.
RECURSIVE UpdateItemsToLatest(_, _)
UpdateItemsToLatest(data, items) ==
    IF items = <<>> THEN data
    ELSE LET item == data.tree[Head(items)]
             updated ==
                IF item.has_combobox /\ ~IsComboboxUpToDate(item)
                THEN SetCurrentIndex(data, Head(items), LatestIndex(item.combo_items))
                ELSE data
         IN  UpdateItemsToLatest(updated, Tail(items))

\* _is_item_hidden
IsItemHidden(node_name) ==
    IF node_name \in DOMAIN tree THEN tree[node_name].hidden ELSE FALSE

\* caches_to_update of _update_all_to_latest (the node names).
CachesToUpdate ==
    {node_name \in DOMAIN caches :
        /\ caches[node_name].current_version # caches[node_name].latest_version
        /\ ~IsItemHidden(node_name)}

\* hou.ui.displayMessage(buttons=("Update", "Cancel"), close_choice=1)
UpdateChoices == {"Update", "Cancel"}

\* --------------------------------------------------- _delete_unused_caches

\* paths_to_delete: the unused paths whose version is < current_version in
\* the str order, in dictionary order.
PathsToDelete(cache_data) ==
    LET stale == SelectSeq(cache_data.unused_cache_paths,
                           LAMBDA e : StrLess(e.version, cache_data.current_version))
    IN  [i \in 1..Len(stale) |-> stale[i].path]

\* The delete loop stops at the first path.unlink() that raises (the file
\* is no longer there); the position it reaches in paths_to_delete.
DeleteReached(paths, fs) ==
    LET missing == {i \in 1..Len(paths) : paths[i] \notin fs}
    IN  IF missing = {} THEN Len(paths) ELSE SetMin(missing)

\* The files the loop unlinks.
Unlinked(paths, fs) == {paths[i] : i \in 1..DeleteReached(paths, fs)} \cap fs

\* The entries the loop removes from unused_cache_paths and from the tree.
Removed(paths, fs) == {paths[i] : i \in 1..DeleteReached(paths, fs)}

\* hou.ui.displayMessage(buttons=("Delete", "Cancel"), close_choice=1)
Choices == {"Delete", "Cancel"}

\* What the confirmation of _delete_unused_caches gives: the dialog is not
\* shown when there is nothing to delete.
DialogResult(paths_to_delete, confirm) ==
    IF paths_to_delete = <<>> THEN "not shown" ELSE confirm

\* Variant: The delete loop entered whatever the dialog returned.
DeleteConfirmedAny(result) == result # "not shown"

\* The handler goes on to the delete loop: if confirm != 0: return
DeleteConfirmed(result) == result = "Delete"

\* ------------------------------------------------------------------ Init

Scene == <<nodeName, parmNode, parmRef>>

MissingPath == MkPath(<<"a">>, <<"v", "1">>, <<"k", ".", "x">>)

\* The scene: which node owns the second parameter, and what that node is
\* called. "reference": the second parameter is a channel reference to the
\* first and holds no path of its own.
SceneKinds == {"same_node", "same_name", "other_name", "reference"}

SceneIs(second) ==
    /\ nodeName = [n \in Nodes |->
                      IF n = "n2" /\ second # "same_name" THEN <<"b">> ELSE <<"a">>]
    /\ parmNode = [q \in Parms |->
                      IF q = "p2" /\ second # "same_node" THEN "n2" ELSE "n1"]
    /\ parmRef = [q \in Parms |->
                      IF q = "p2" /\ second = "reference" THEN "p1" ELSE q]

\* The window after __init__: no cache data yet, the first worker created
\* and its thread started by _start_worker.
Constructed ==
    /\ caches = << >>
    /\ tree = << >>
    /\ search = <<>>
    /\ nStarts = 1
    /\ worker = (1 :> NewWorker)
    /\ thread = (1 :> NewThread)
    /\ closed = FALSE
    /\ lastOp = [op |-> "__init__"]

\* Scenes that are scanned: up to MaxScanFiles files, two parameters that
\* hold a path of a file on disk, of a missing file or of a file outside the
\* cache root.
ScanInit ==
    /\ disk \in {d \in SUBSET ScanUniverse : Cardinality(d) \in 1..MaxScanFiles}
    /\ \E second \in SceneKinds : SceneIs(second)
    /\ parmRaw \in [Parms -> disk \cup {OutsidePath, MissingPath}]
    /\ parmRef["p2"] = "p1" => parmRaw["p2"] = OutsidePath
    /\ Constructed

\* Scenes the user acts on: up to MaxFiles files and one node with a cache,
\* or one file fewer and two parameters with a cache.
Init ==
    /\ disk \in {d \in SUBSET Universe : Cardinality(d) \in 1..MaxFiles}
    /\ \E second \in SceneKinds :
        /\ SceneIs(second)
        /\ second # "reference" => Cardinality(disk) < MaxFiles
    /\ parmRaw \in [Parms -> disk \cup {OutsidePath, MissingPath}]
    /\ parmRaw["p1"] \in disk
    /\ parmRaw["p2"] # OutsidePath <=> parmRef["p2"] = "p2"
    /\ Constructed

\* --------------------------------------------------------------- actions

\* _start_worker (Reload, settings applied)
StartWorker ==
    /\ ~closed /\ ~GuiBusy /\ CanWait
    /\ nStarts < MaxStarts
    /\ nStarts' = nStarts + 1
    /\ worker' = StopCurrentWorkerW @@ ((nStarts + 1) :> NewWorker)
    /\ thread' = StopCurrentWorkerT @@ ((nStarts + 1) :> NewThread)
    /\ UNCHANGED lastOp
    /\ UNCHANGED <<disk, Scene, search, parmRaw, caches, tree, closed>>

\* closeEvent
CloseEvent ==
    /\ ~closed /\ ~GuiBusy /\ CanWait
    /\ worker' = StopCurrentWorkerW
    /\ thread' = StopCurrentWorkerT
    /\ closed' = TRUE
    /\ UNCHANGED lastOp
    /\ UNCHANGED <<disk, Scene, search, parmRaw, caches, tree, nStarts>>

\* QThread.start() has taken effect: the thread emits started, which calls
\* worker.run through the connection of _start_worker (queued to the
\* worker's thread), and enters its event loop.
ThreadStarted(w) ==
    /\ thread[w].state = "new"
    /\ thread' = [thread EXCEPT ![w].state = "loop"]
    /\ worker' = [worker EXCEPT ![w].run = "queued"]
    /\ UNCHANGED lastOp
    /\ UNCHANGED <<disk, Scene, search, parmRaw, caches, tree, nStarts, closed>>

\* run(), up to the loop: hou.fileReferences and _filter_file_references
RunBegin(w) ==
    /\ worker[w].run = "queued" /\ ~worker[w].deleted
    /\ worker[w].affinity = "gui" => ~GuiBusy
    /\ \E refs \in FilterFileReferences :
        worker' = [worker EXCEPT
                      ![w].run = "running", ![w].ran_on = worker[w].affinity,
                      ![w].refs = refs, ![w].index = 0, ![w].caches = << >>,
                      ![w].progress = <<>>]
    /\ UNCHANGED lastOp
    /\ UNCHANGED <<disk, Scene, search, parmRaw, caches, tree, nStarts, thread, closed>>

\* run(), one turn of the loop: _build_cache_data and caches[name] = ...
RunStep(w) ==
    /\ worker[w].run = "running"
    /\ worker[w].index < Len(worker[w].refs)
    /\ \E ref \in {worker[w].refs[worker[w].index + 1]} :
       \E referenced_parm \in {ref[1]} :
       \E used_cache_path \in {ref[2]} :
       \E iteration \in Iterations(used_cache_path, disk) :
       \E cache_data \in
             {BuildCacheData(referenced_parm, used_cache_path, disk, iteration)} :
                 /\ worker' = [worker EXCEPT
                        ![w].index = @ + 1,
                        ![w].progress =
                            Append(@, Progress(worker[w].index, Len(worker[w].refs))),
                        ![w].caches = PutCache(@, nodeName[parmNode[referenced_parm]],
                                               cache_data)]
                 /\ lastOp' = [op |-> "_build_cache_data", worker |-> w,
                               used_cache_path |-> used_cache_path,
                               cache_data |-> cache_data]
    /\ UNCHANGED <<disk, Scene, search, parmRaw, caches, tree, nStarts, thread, closed>>

\* run(), after the loop: finished.emit(caches) and the slots connected to
\* it: _stop_worker (self.caches = caches, _populate_tree), thread.quit and
\* worker.deleteLater
RunFinish(w) ==
    /\ worker[w].run = "running"
    /\ worker[w].index = Len(worker[w].refs)
    /\ LET slots == worker[w].on_finished
       IN  /\ IF "_stop_worker" \in slots
              THEN /\ caches' = worker[w].caches
                   /\ tree' = PopulateTree(worker[w].caches, search)
              ELSE UNCHANGED <<caches, tree>>
           /\ thread' = IF "quit" \in slots /\ thread[w].state = "loop"
                        THEN [thread EXCEPT ![w].state = "quit"] ELSE thread
           /\ worker' = [worker EXCEPT
                            ![w].run = "done",
                            ![w].refs = <<>>, ![w].index = 0, ![w].caches = << >>,
                            ![w].progress = <<>>, ![w].emitted = @ + 1,
                            ![w].delete_later = ("deleteLater" \in slots)]
           /\ lastOp' = [op |-> "finished", worker |-> w,
                         filtered_file_references |-> worker[w].refs,
                         caches |-> worker[w].caches,
                         progress |-> worker[w].progress,
                         applied |-> "_stop_worker" \in slots]
    /\ UNCHANGED <<disk, Scene, search, parmRaw, nStarts, closed>>

\* The thread leaves its event loop after quit() and emits finished.
ThreadExit(w) ==
    /\ thread[w].state = "quit"
    /\ thread' = [thread EXCEPT
                     ![w].state = "finished",
                     ![w].delete_later = ("deleteLater" \in thread[w].on_finished)]
    /\ UNCHANGED lastOp
    /\ UNCHANGED <<disk, Scene, search, parmRaw, caches, tree, nStarts, worker, closed>>

\* thread.deleteLater, delivered by the GUI thread's event loop
ThreadDeleteLater(w) ==
    /\ ~GuiBusy
    /\ thread[w].state = "finished" /\ thread[w].delete_later
    /\ thread' = [thread EXCEPT ![w].state = "deleted"]
    /\ UNCHANGED lastOp
    /\ UNCHANGED <<disk, Scene, search, parmRaw, caches, tree, nStarts, worker, closed>>

\* worker.deleteLater, delivered by the event loop of the worker's thread
WorkerDeleteLater(w) ==
    /\ worker[w].affinity = "gui" => ~GuiBusy
    /\ worker[w].delete_later /\ ~worker[w].deleted
    /\ worker' = [worker EXCEPT ![w].deleted = TRUE]
    /\ UNCHANGED lastOp
    /\ UNCHANGED <<disk, Scene, search, parmRaw, caches, tree, nStarts, thread, closed>>

\* The user picks another entry of a version combobox: currentTextChanged
\* calls _update_caches(node_name, new_version).
UpdateCaches(node_name, new_version) ==
    /\ ~closed /\ ~GuiBusy
    /\ node_name \in DOMAIN tree
    /\ tree[node_name].has_combobox
    /\ \E i \in 1..Len(tree[node_name].combo_items) :
            tree[node_name].combo_items[i] = new_version
    /\ new_version # tree[node_name].combo_text
    /\ LET data == UpdateCachesOn(WindowData, node_name, new_version)
       IN  /\ caches' = data.caches
           /\ tree' = data.tree
           /\ parmRaw' = data.parmRaw
           /\ lastOp' = [op |-> "_update_caches", node_name |-> node_name,
                         new_version |-> new_version,
                         parm_sets |-> data.parm_sets]
    /\ UNCHANGED <<disk, Scene, search, nStarts, worker, thread, closed>>

\* Update Selected to Latest (button, context menu) with the top level
\* items named by items selected.
UpdateSelectedToLatest(items) ==
    /\ ~closed /\ ~GuiBusy
    /\ items # {} /\ items \subseteq DOMAIN tree
    /\ LET data == UpdateItemsToLatest(WindowData, SortedStrings(items))
       IN  /\ caches' = data.caches
           /\ tree' = data.tree
           /\ parmRaw' = data.parmRaw
           /\ lastOp' = [op |-> "_update_selected_to_latest", items |-> items,
                         parm_sets |-> data.parm_sets]
    /\ UNCHANGED <<disk, Scene, search, nStarts, worker, thread, closed>>

\* Update All to Latest (button, context menu); confirm is the button of
\* the dialog, which is shown when there is a cache to update.
UpdateAllToLatest(confirm) ==
    /\ ~closed /\ ~GuiBusy
    /\ LET caches_to_update == CachesToUpdate
           shown == IF caches_to_update = {} THEN "not shown" ELSE confirm
           data == IF shown = "Update"
                   THEN UpdateItemsToLatest(WindowData, SortedStrings(DOMAIN tree))
                   ELSE WindowData
       IN  /\ caches_to_update = {} => confirm = "Cancel"
           /\ caches' = data.caches
           /\ tree' = data.tree
           /\ parmRaw' = data.parmRaw
           /\ lastOp' = [op |-> "_update_all_to_latest", confirm |-> shown,
                         listed |-> caches_to_update,
                         reported |-> IF shown = "Update"
                                      THEN Cardinality(caches_to_update) ELSE 0,
                         parm_sets |-> data.parm_sets]
    /\ UNCHANGED <<disk, Scene, search, nStarts, worker, thread, closed>>

\* The user edits the search bar: textChanged calls _filter_tree(text).
FilterTree(text) ==
    /\ ~closed /\ ~GuiBusy
    /\ text # search
    /\ search' = text
    /\ tree' = FilterTreeItems(tree, text)
    /\ UNCHANGED lastOp
    /\ UNCHANGED <<disk, Scene, parmRaw, caches, nStarts, worker, thread, closed>>

\* Delete Unused Caches of the context menu on a top level item (enabled
\* for an item whose cache file and cache path are valid).
DeleteUnusedCaches(node_name, confirm) ==
    /\ ~closed /\ ~GuiBusy
    /\ node_name \in DOMAIN tree
    /\ ContextActionEnabled(tree[node_name])
    /\ LET cache_data == caches[node_name]
           paths_to_delete == PathsToDelete(cache_data)
           shown == DialogResult(paths_to_delete, confirm)
           removed == IF DeleteConfirmed(shown)
                      THEN Removed(paths_to_delete, disk) ELSE {}
           unlinked == IF DeleteConfirmed(shown)
                       THEN Unlinked(paths_to_delete, disk) ELSE {}
           remaining == SelectSeq(cache_data.unused_cache_paths,
                                  LAMBDA e : e.path \notin removed)
       IN  /\ paths_to_delete = <<>> => confirm = "Cancel"
           /\ disk' = disk \ unlinked
           /\ caches' = [caches EXCEPT ![node_name].unused_cache_paths = remaining]
           /\ tree' = [tree EXCEPT
                          ![node_name].children =
                              SelectSeq(@, LAMBDA e : e.path \notin removed)]
           /\ lastOp' = [op |-> "_delete_unused_caches", node_name |-> node_name,
                         confirm |-> shown,
                         unlinked |-> unlinked]
    /\ UNCHANGED <<Scene, search, parmRaw, nStarts, worker, thread, closed>>

Next ==
    \/ StartWorker
    \/ CloseEvent
    \/ \E w \in DOMAIN worker :
        \/ ThreadStarted(w)
        \/ RunBegin(w)
        \/ RunStep(w)
        \/ RunFinish(w)
        \/ ThreadExit(w)
        \/ ThreadDeleteLater(w)
        \/ WorkerDeleteLater(w)
    \/ \E node_name \in NodeNames :
        \/ \E new_version \in VersionDirs : UpdateCaches(node_name, new_version)
        \/ \E confirm \in Choices : DeleteUnusedCaches(node_name, confirm)
    \/ \E items \in SUBSET NodeNames : UpdateSelectedToLatest(items)
    \/ \E confirm \in UpdateChoices : UpdateAllToLatest(confirm)
    \/ \E text \in SearchTexts : FilterTree(text)

Spec == Init /\ [][Next]_vars

\* Two files of one version and one file of the next version.
LatestDisk ==
    {MkPath(<<"a">>, <<"v", "1">>, <<"a", ".", "x">>),
     MkPath(<<"a">>, <<"v", "1">>, <<"a", "_", "k", ".", "x">>),
     MkPath(<<"a">>, <<"v", "2">>, <<"a", ".", "x">>)}

\* Two nodes with a cache each in one scanned directory, the search bar in
\* use, and no second scan.
LatestInit ==
    /\ disk = LatestDisk
    /\ SceneIs("other_name")
    /\ parmRaw \in [Parms -> disk]
    /\ parmRaw["p1"] # parmRaw["p2"]
    /\ Constructed

LatestNext ==
    \/ \E w \in DOMAIN worker :
        \/ ThreadStarted(w)
        \/ RunBegin(w)
        \/ RunStep(w)
        \/ RunFinish(w)
        \/ ThreadExit(w)
        \/ ThreadDeleteLater(w)
        \/ WorkerDeleteLater(w)
    \/ \E node_name \in NodeNames :
        \/ \E new_version \in VersionDirs : UpdateCaches(node_name, new_version)
        \/ \E confirm \in Choices : DeleteUnusedCaches(node_name, confirm)
    \/ \E items \in SUBSET NodeNames : UpdateSelectedToLatest(items)
    \/ \E confirm \in UpdateChoices : UpdateAllToLatest(confirm)
    \/ \E text \in SearchTexts : FilterTree(text)

LatestSpec == LatestInit /\ [][LatestNext]_vars

\* The scan alone: the first worker runs over a scene.
ScanNext ==
    \E w \in DOMAIN worker :
        \/ ThreadStarted(w)
        \/ RunBegin(w)
        \/ RunStep(w)
        \/ RunFinish(w)

ScanSpec == ScanInit /\ [][ScanNext]_vars

\* run() is sequential code on a thread that is scheduled: a run() that has
\* begun takes its next step.
ScanRun == \E w \in DOMAIN worker : RunStep(w) \/ RunFinish(w)

\* The file a parameter of the large scene points to: no such file exists.
LargeScenePath(i) ==
    LET digit == <<"0", "1", "2", "3", "4", "5", "6", "7", "8", "9">>
    IN  MkPath(<<"a">>, <<"v", "1">>,
               <<digit[(i \div 100) + 1], digit[((i \div 10) % 10) + 1],
                 digit[(i % 10) + 1], ".", "x">>)

LargeParms == {LargeParmNames[i] : i \in 1..LargeSceneParms}

\* The large scene: one node with LargeSceneParms file parameters, each with
\* a path of its own below the cache root.
LargeSceneInit ==
    /\ disk = {}
    /\ nodeName = [n \in Nodes |-> IF n = "n2" THEN <<"b">> ELSE <<"a">>]
    /\ parmNode = [q \in LargeParms |-> "n1"]
    /\ parmRef = [q \in LargeParms |-> q]
    /\ parmRaw = [q \in LargeParms |->
                     LargeScenePath(CHOOSE i \in 1..LargeSceneParms :
                                        LargeParmNames[i] = q)]
    /\ Constructed

\* The scanned scenes with at most MaxLiveFiles files, and the large scene.
ScanLiveInit ==
    \/ ScanInit /\ Cardinality(disk) <= MaxLiveFiles
    \/ LargeSceneInit

ScanLiveSpec == ScanLiveInit /\ [][ScanNext]_vars /\ WF_vars(ScanRun)

\* ---------------------------------------------------------------- claims

\* The step just taken is a run of the handler named op.
Ran(op) == lastOp'.op = op /\ lastOp' # lastOp

\* A cache data dictionary of a cache whose file exists and whose parent
\* directory is a version directory.
ValidCache(cache_data) == cache_data.valid_cache_file /\ cache_data.valid_cache_path

\* The version recorded for an unused path of a cache data dictionary.
UnusedVersion(cache_data, path) ==
    LET unused == cache_data.unused_cache_paths
    IN  unused[CHOOSE i \in 1..Len(unused) : unused[i].path = path].version

\* C1: for a cache whose used file exists and whose parent directory name
\* matches the version pattern, _build_cache_data returns as latest_version
\* the greatest (in the order of str) of the versions extracted from the
\* files below the directory two levels above the used path, as
\* current_version the version extracted from the used path, and
\* is_current_latest true exactly when the two are equal.
C1_BuildCacheData ==
    lastOp.op = "_build_cache_data" =>
        LET cache_data == lastOp.cache_data
            used == lastOp.used_cache_path
            versions == {ExtractVersion(f) :
                            f \in {g \in disk : IsPrefix(PathParents1(used) \o <<"/">>, g)}}
        IN  (used \in disk /\ PatternMatch(PathName(PathParent(used)))) =>
                /\ cache_data.latest_version \in versions
                /\ \A v \in versions : StrLeq(v, cache_data.latest_version)
                /\ cache_data.current_version = ExtractVersion(used)
                /\ cache_data.is_current_latest
                     <=> (cache_data.current_version = cache_data.latest_version)

C1_Witness ==
    /\ lastOp.op = "_build_cache_data"
    /\ ValidCache(lastOp.cache_data)
    /\ Len(lastOp.cache_data.all_versions) >= 2
    /\ ~lastOp.cache_data.is_current_latest

\* C2: the latest_version of a scan is the numerically greatest sibling
\* version, and all_versions is in ascending numeric order.
C2_NumericOrder ==
    (lastOp.op = "_build_cache_data" /\ ValidCache(lastOp.cache_data)) =>
        LET all_versions == lastOp.cache_data.all_versions
        IN  /\ \A i \in 1..Len(all_versions) :
                VersionNumber(all_versions[i])
                    <= VersionNumber(lastOp.cache_data.latest_version)
            /\ \A i, j \in 1..Len(all_versions) :
                i < j => VersionNumber(all_versions[i]) <= VersionNumber(all_versions[j])

\* C3: every reference retained by _filter_file_references is in the
\* dictionary run() emits, under the name of the node that owns its
\* parameter.
C3_AllRetained ==
    lastOp.op = "finished" =>
        \A i \in 1..Len(lastOp.filtered_file_references) :
            LET ref == lastOp.filtered_file_references[i]
                name == nodeName[parmNode[ref[1]]]
            IN  /\ name \in DOMAIN lastOp.caches
                /\ lastOp.caches[name].cache_parm = ref[1]
                /\ ref[2] \in DOMAIN lastOp.caches[name].used_cache_path

\* C4: every valid cache entry of self.caches has exactly one used path,
\* recorded with current_version; is_current_latest is true exactly when
\* current_version is latest_version; the used path is no unused path.
C4_EntryConsistent ==
    \A name \in DOMAIN caches :
        LET cache_data == caches[name]
        IN  ValidCache(cache_data) =>
                /\ Cardinality(DOMAIN cache_data.used_cache_path) = 1
                /\ cache_data.used_cache_path[UsedPath(cache_data)]
                        = cache_data.current_version
                /\ cache_data.is_current_latest
                        <=> (cache_data.current_version = cache_data.latest_version)
                /\ UsedPath(cache_data) \notin Keys(cache_data.unused_cache_paths)

C4_Witness ==
    /\ lastOp.op = "_update_caches"
    /\ Len(lastOp.parm_sets) = 1
    /\ ValidCache(caches[lastOp.node_name])
    /\ ~caches[lastOp.node_name].is_current_latest

\* No scan is in progress: the worker of the last _start_worker has emitted
\* finished.
NoScanRunning == worker[nStarts].run = "done"

\* C5: whenever no scan is running (a switch is one step), the used path
\* recorded for a valid cache entry is the path its cache parameter
\* evaluates to.
C5_UsedPathIsParmValue ==
    NoScanRunning =>
        \A name \in DOMAIN caches :
            ValidCache(caches[name]) =>
                UsedPath(caches[name]) = ParmEval(caches[name].cache_parm)

\* C6: a switch to new_version through the version selector sets the cache
\* parameter exactly once, in the undo group "Update Cache Path", to the
\* collapsed form of a path that was unused with that version, and the path
\* is then the used path, with current_version = new_version.
C6_SwitchSetsParm ==
    [][Ran("_update_caches") =>
        LET name == lastOp'.node_name
            new_version == lastOp'.new_version
            unused == caches[name].unused_cache_paths
        IN  /\ Len(lastOp'.parm_sets) = 1
            /\ \E i \in 1..Len(unused) :
                /\ unused[i].version = new_version
                /\ lastOp'.parm_sets[1] =
                      [parm |-> caches[name].cache_parm,
                       value |-> CollapseHoudiniPath(unused[i].path, name),
                       undo_group |-> "Update Cache Path"]
                /\ parmRaw'[caches[name].cache_parm] = lastOp'.parm_sets[1].value
                /\ caches'[name].used_cache_path = (unused[i].path :> new_version)
                /\ caches'[name].current_version = new_version]_vars

\* C7: every file Delete Unused Caches deletes is an unused path of the
\* chosen node with a version number lower than the node's current version.
C7_DeletesOnlyOlder ==
    [][Ran("_delete_unused_caches") =>
        LET cache_data == caches[lastOp'.node_name]
        IN  \A f \in disk \ disk' :
                /\ f \in Keys(cache_data.unused_cache_paths)
                /\ f # UsedPath(cache_data)
                /\ VersionNumber(UnusedVersion(cache_data, f))
                        < VersionNumber(cache_data.current_version)]_vars

\* C8: a file is deleted only by _delete_unused_caches after the dialog
\* returned "Delete"; when the dialog is cancelled or closed, or not shown
\* because nothing is older, the disk, self.caches and the tree stay as
\* they are.
C8_NoDeleteWithoutConfirm ==
    [][/\ disk' # disk =>
            (lastOp'.op = "_delete_unused_caches" /\ lastOp'.confirm = "Delete")
       /\ (Ran("_delete_unused_caches") /\ lastOp'.confirm # "Delete") =>
            (disk' = disk /\ caches' = caches /\ tree' = tree)]_vars

C8_Witness ==
    /\ lastOp.op = "_delete_unused_caches"
    /\ lastOp.confirm = "Cancel"
    /\ PathsToDelete(caches[lastOp.node_name]) # <<>>

\* C9: at most one worker thread runs at any time (_start_worker has
\* stopped the previous one and waited for it), and two executions of run()
\* never overlap.
C9_OneWorker ==
    /\ Cardinality({w \in DOMAIN thread : thread[w].state \in {"new", "loop", "quit"}}) <= 1
    /\ Cardinality({w \in DOMAIN worker : worker[w].run = "running"}) <= 1

C9_Witness ==
    /\ nStarts >= 2
    /\ thread[nStarts].state = "loop"
    /\ worker[nStarts].run = "running"
    /\ worker[1].run = "done"

\* C10: run() executes on the worker thread, never on the GUI thread, so
\* the GUI thread handles user events while a scan runs.
C10_RunOffGuiThread ==
    \A w \in DOMAIN worker :
        worker[w].run = "running" => (worker[w].ran_on = "thread" /\ ~GuiBusy)

\* The handlers that switch versions.
SwitchOps == {"_update_caches", "_update_selected_to_latest", "_update_all_to_latest"}

C12_OfferedVersionsHavePaths ==
    \A name \in DOMAIN tree :
        tree[name].has_combobox =>
            \A i \in 1..Len(tree[name].combo_items) :
                tree[name].combo_items[i] # caches[name].current_version =>
                    HasUnusedVersion(caches[name], tree[name].combo_items[i])

\* The nodes whose current version a step changes.
SwitchedNodes ==
    {name \in DOMAIN caches \cap DOMAIN caches' :
        caches'[name].current_version # caches[name].current_version}

\* C13: a confirmed Update All to Latest switches exactly the nodes listed
\* in its dialog (outdated, item not hidden) and reports their number; the
\* nodes it switches were outdated and not hidden; without confirmation it
\* switches none.
C13_UpdateAllOnlyListed ==
    [][Ran("_update_all_to_latest") =>
        /\ lastOp'.confirm = "Update" =>
            /\ SwitchedNodes = lastOp'.listed
            /\ lastOp'.reported = Cardinality(SwitchedNodes)
        /\ lastOp'.confirm # "Update" => SwitchedNodes = {}
        /\ \A name \in SwitchedNodes :
            ~caches[name].is_current_latest /\ ~tree[name].hidden]_vars

\* C14: after Update Selected to Latest every selected item that has a
\* version selector, and after a confirmed Update All to Latest every item
\* that has one, is at its latest version: current_version = latest_version
\* and is_current_latest; the last entry of a selector is latest_version.
C14_UpdateReachesLatest ==
    [][/\ \A name \in DOMAIN tree' :
            tree'[name].has_combobox =>
                tree'[name].combo_items[Len(tree'[name].combo_items)]
                    = caches'[name].latest_version
       /\ \A name \in DOMAIN tree :
            (/\ tree[name].has_combobox
             /\ \/ Ran("_update_selected_to_latest") /\ name \in lastOp'.items
                \/ Ran("_update_all_to_latest") /\ lastOp'.confirm = "Update") =>
                /\ caches'[name].current_version = caches'[name].latest_version
                /\ caches'[name].is_current_latest]_vars

C14_Witness ==
    /\ lastOp.op = "_update_all_to_latest"
    /\ lastOp.confirm = "Update"
    /\ Len(lastOp.parm_sets) >= 1
    /\ \A name \in DOMAIN caches : caches[name].is_current_latest

\* C15: when a switching handler changes the used path of a node, the new
\* used path has the file name of the previous one and lies in the same
\* cache directory: only the version directory differs.
C15_SwitchKeepsFileName ==
    [][lastOp'.op \in SwitchOps =>
        \A name \in DOMAIN caches \cap DOMAIN caches' :
            LET old == UsedPath(caches[name])
                new == UsedPath(caches'[name])
            IN  new # old =>
                    /\ PathName(new) = PathName(old)
                    /\ PathParents1(new) = PathParents1(old)]_vars

\* The version token the pattern matches in the name of the directory
\* that holds the file.
DirectoryVersion(path) ==
    LET name == PathName(PathParent(path))
    IN  SubSeq(name, 1, PatternEnd(name, 1))

\* C16: in the cache data of a valid cache, current_version is the version
\* token of the used path's parent directory name, every path is recorded
\* with the token of the version directory that holds it, and two files in
\* different version directories never have the same version.
C16_VersionOfParentDirectory ==
    (lastOp.op = "_build_cache_data" /\ ValidCache(lastOp.cache_data)) =>
        LET cache_data == lastOp.cache_data
            unused == cache_data.unused_cache_paths
            versioned == {i \in 1..Len(unused) :
                            PatternMatch(PathName(PathParent(unused[i].path)))}
        IN  /\ cache_data.current_version = DirectoryVersion(lastOp.used_cache_path)
            /\ \A i \in versioned :
                /\ unused[i].version = DirectoryVersion(unused[i].path)
                /\ PathParent(unused[i].path) # PathParent(lastOp.used_cache_path) =>
                      unused[i].version # cache_data.current_version
            /\ \A i, j \in versioned :
                PathParent(unused[i].path) # PathParent(unused[j].path) =>
                    unused[i].version # unused[j].version

\* C17: the finished signal of a worker reaches _stop_worker only when the
\* worker is the one most recently started and the window has not been
\* closed; self.caches and the tree are replaced by a scan result only then.
C17_OnlyLatestScanApplied ==
    [][Ran("finished") =>
        /\ lastOp'.applied => (lastOp'.worker = nStarts /\ ~closed)
        /\ (caches' # caches \/ tree' # tree) => lastOp'.applied
        /\ lastOp'.applied =>
            (caches' = lastOp'.caches /\ DOMAIN tree' = DOMAIN caches')]_vars

C17_Witness ==
    /\ lastOp.op = "finished"
    /\ ~lastOp.applied
    /\ lastOp.worker < nStarts
    /\ lastOp.caches # << >>

\* The progress values of one run(): between lowest and 100, not decreasing.
ProgressOk(progress, lowest) ==
    /\ \A i \in 1..Len(progress) : progress[i] \in lowest..100
    /\ \A i, j \in 1..Len(progress) : i < j => progress[i] <= progress[j]

\* The emissions of every run(), with lowest the least progress value it may
\* emit: finished is emitted once, when run() ends, after its progress
\* emissions; the progress values are between lowest and 100 and do not
\* decrease; the last one is 100 when a reference was retained; without
\* retained references there is no progress and finished carries an empty
\* dictionary.
RunEmits(lowest) ==
    /\ \A w \in DOMAIN worker :
        /\ worker[w].emitted = (IF worker[w].run = "done" THEN 1 ELSE 0)
        /\ worker[w].run = "running" =>
            /\ Len(worker[w].progress) = worker[w].index
            /\ ProgressOk(worker[w].progress, lowest)
    /\ lastOp.op = "finished" =>
        LET total_files == Len(lastOp.filtered_file_references)
        IN  /\ Len(lastOp.progress) = total_files
            /\ ProgressOk(lastOp.progress, lowest)
            /\ total_files >= 1 => lastOp.progress[total_files] = 100
            /\ total_files = 0 => lastOp.caches = << >>

\* A worker whose run() has ended emits nothing more.
DoneEmitsNothing ==
    \A w \in DOMAIN worker :
        worker[w].run = "done" =>
            /\ worker'[w].run = "done"
            /\ worker'[w].emitted = worker[w].emitted
            /\ worker'[w].progress = worker[w].progress

\* C18 (as stated): every run() terminates and emits finished exactly once,
\* after its progress emissions; the progress values do not decrease and lie
\* between 1 and 100, the last one is 100 when a reference was retained, and
\* without retained references run() emits no progress and finishes with an
\* empty dictionary.
C18_RunTerminates ==
    /\ []RunEmits(1)
    /\ [][DoneEmitsNothing]_vars
    /\ (worker[1].run = "running") ~> (worker[1].run = "done")

\* C18 (amended): as above, with progress values between 0 and 100: the
\* first values are 0 when more than 100 references are retained.
C18_RunTerminatesFromZero ==
    /\ []RunEmits(0)
    /\ [][DoneEmitsNothing]_vars
    /\ (worker[1].run = "running") ~> (worker[1].run = "done")

\* A run() over the large scene has finished: its first progress value was
\* 0, its last one 100.
C18_Witness ==
    /\ lastOp.op = "finished"
    /\ Len(lastOp.progress) = LargeSceneParms
    /\ lastOp.progress[1] = 0
    /\ lastOp.progress[LargeSceneParms] = 100
    /\ worker[lastOp.worker].emitted = 1

\* A run() over two retained references has finished.
C18_WitnessTwo ==
    /\ lastOp.op = "finished"
    /\ lastOp.progress = <<50, 100>>

\* A run() without retained references has finished.
C18_WitnessEmpty ==
    /\ lastOp.op = "finished"
    /\ lastOp.filtered_file_references = <<>>
    /\ lastOp.progress = <<>>

\* A path is the cache root or lies below it.
UnderCacheRoot(path) ==
    \/ path = CacheRootPath
    \/ /\ Len(path) > Len(CacheRootPath) + 1
       /\ \A i \in 1..Len(CacheRootPath) : path[i] = CacheRootPath[i]
       /\ path[Len(CacheRootPath) + 1] = "/"

\* What the scene's references give: for every reference that belongs to a
\* parameter, the referenced parameter and the path it evaluates to, when
\* that path is under the cache root.
ExpectedPairs ==
    {pair \in
        {<<parmRef[parm],
           ExpandString(parmRaw[parmRef[parm]], nodeName[parmNode[parmRef[parm]]])>> :
            parm \in DOMAIN parmRaw} :
        UnderCacheRoot(pair[2])}

\* C19: the references run() works on, as _filter_file_references returned
\* them, are exactly the pairs (referenced parameter, path) of the
\* references whose parameter is a hou.Parm and whose referenced parameter
\* evaluates to a path under the cache root; every pair occurs once, and the
\* pairs are in the order of their path strings.
C19_FilteredReferences ==
    [][\A w \in DOMAIN worker :
          (worker[w].run = "queued" /\ worker'[w].run = "running") =>
              LET refs == worker'[w].refs
              IN  /\ {refs[i] : i \in 1..Len(refs)} = ExpectedPairs
                  /\ \A i, j \in 1..Len(refs) : i < j => refs[i] # refs[j]
                  /\ \A i, j \in 1..Len(refs) :
                        i < j => ~StrLess(refs[j][2], refs[i][2])]_vars

\* A scan of a scene whose second parameter is a reference to the first has
\* finished: two references that belong to a parameter gave one pair.
C19_Witness ==
    /\ lastOp.op = "finished"
    /\ parmRef["p2"] = "p1"
    /\ lastOp.filtered_file_references = <<(<<"p1", parmRaw["p1"]>>)>>

\* The scan that was applied reports every retained reference whose file
\* does not exist: an entry of its own, not valid, with nothing scanned, and
\* an "Invalid Cache" item without selector or children, for which the two
\* context actions are disabled.
InvalidReported ==
    (lastOp.op = "finished" /\ lastOp.applied) =>
        \A i \in 1..Len(lastOp.filtered_file_references) :
            LET ref == lastOp.filtered_file_references[i]
                name == nodeName[parmNode[ref[1]]]
            IN  ref[2] \notin disk =>
                    /\ name \in DOMAIN caches /\ name \in DOMAIN tree
                    /\ caches[name].cache_parm = ref[1]
                    /\ ref[2] \in DOMAIN caches[name].used_cache_path
                    /\ ~caches[name].valid_cache_file
                    /\ ~caches[name].valid_cache_path
                    /\ caches[name].unused_cache_paths = <<>>
                    /\ caches[name].all_versions = <<>>
                    /\ caches[name].latest_version = None
                    /\ caches[name].current_version = None
                    /\ tree[name].cache_text = InvalidCacheText
                    /\ ~tree[name].has_combobox
                    /\ tree[name].children = <<>>
                    /\ ~ContextActionEnabled(tree[name])

\* No file is deleted and no parameter is rewritten for an item that is
\* shown as invalid.
InvalidUntouched ==
    \A name \in DOMAIN tree :
        ~tree[name].valid_cache_file =>
            /\ Ran("_delete_unused_caches") => lastOp'.node_name # name
            /\ Ran("_update_selected_to_latest") =>
                    parmRaw'[caches[name].cache_parm]
                        = parmRaw[caches[name].cache_parm]

\* C20: a reference whose cache file does not exist is reported, not
\* dropped and not scanned: its entry has valid_cache_file and
\* valid_cache_path false, no unused paths, no versions, no latest and no
\* current version; the tree shows it as an "Invalid Cache" item without
\* version selector and without children; Update Selected to Latest and
\* Delete Unused Caches are disabled for it, so that no parameter is
\* rewritten and no file is deleted for it.
C20_InvalidReported == []InvalidReported /\ [][InvalidUntouched]_vars

====
